---- MODULE Spec2Model ----
(***************************************************************************)
(* json-ipc-server (src/src/nix.rs): a JSON-RPC server over a unix stream  *)
(* socket.  The model has two layers:                                      *)
(*   - the reactor: the connection table (slab), the per-connection        *)
(*     read/write handlers and the Handler::ready dispatch, written as     *)
(*     operators over a record of the reactor's state, applied by the      *)
(*     thread that owns the event loop;                                    *)
(*   - the lifecycle: Server::run_async / stop_async / stop / drop and the *)
(*     worker thread, one action per atomic load, store or lock step.      *)
(* The kernel side (socket buffers, the accept backlog, epoll readiness)   *)
(* and the clients are the environment.                                    *)
(***************************************************************************)
EXTENDS Integers, Sequences, FiniteSets, TLC

\* ------------------------------------------------------------------------
\* Program constants, scaled down so that the state space stays finite and
\* small; each is named after the constant of the source it stands for.
\* ------------------------------------------------------------------------

\* const SERVER: Token = Token(0)
SERVER == 0

\* const MAX_CONCURRENT_CONNECTIONS: usize = 1024 (scaled)
MAX_CONCURRENT_CONNECTIONS == 2

\* const MAX_WRITE_LENGTH: usize = 8192 (scaled)
MAX_WRITE_LENGTH == 2

\* const REQUEST_CHUNK_SIZE: usize = 4096 (scaled)
REQUEST_CHUNK_SIZE == 6

\* ------------------------------------------------------------------------
\* Bounds of the environment.
\* ------------------------------------------------------------------------

\* client sockets that exist in the model (each connects at most once)
MaxClients == 3

\* bytes one client sends in total, byte-stream specification
MaxBytes == 6

\* requests one client sends in total, whole-message specification
MaxMsgs == 2

\* requests of one batch the pipelining property ranges over
MaxBatch == 2

\* lifecycle calls the controlling thread makes
MaxCalls == 4

\* calls each of two threads makes when they use the server concurrently
MaxThreadCalls == 1

Clients == 1..MaxClients

\* Slab::new_starting_at(Token(1), MAX_CONCURRENT_CONNECTIONS)
Tokens == 1..MAX_CONCURRENT_CONNECTIONS

\* The bytes of the wire: an opening brace, a closing brace, and a byte that
\* marks a request as a notification when it occurs inside it.
Bytes == {"{", "}", "n"}

\* mio::EventSet
EventKinds == {"readable", "writable", "hup"}

\* Option<Vec<u8>>
None == [some |-> FALSE, buf |-> <<>>]

Some(b) == [some |-> TRUE, buf |-> b]

\* An empty slot of the slab.
NoConn ==
    [live |-> FALSE, socket |-> 0, write_buf |-> None, request |-> <<>>,
     token |-> 0, interest |-> {}]

Min(a, b) == IF a < b THEN a ELSE b

\* buf[from..] with a 0-based inclusive start, as a Rust range
From(buf, from) == SubSeq(buf, from + 1, Len(buf))

\* buf[0..to] with a 0-based exclusive end, as a Rust range
UpTo(buf, to) == SubSeq(buf, 1, to)

RECURSIVE Flatten(_)
Flatten(ss) == IF ss = <<>> THEN <<>> ELSE Head(ss) \o Flatten(Tail(ss))

\* ------------------------------------------------------------------------
\* The collaborators of the connection: message extraction and the request
\* handler.  Neither is in src/src/nix.rs.
\* ------------------------------------------------------------------------

\* validator::extract_requests: one scan of the buffer that counts brace
\* depth.  A message is a span from an opening brace at depth 0 to the brace
\* that closes it; bytes outside any message are skipped.  The result is the
\* complete messages in order and the 0-based index of the last byte of the
\* last one (0 when there is none).
RECURSIVE ScanRequests(_, _, _, _, _, _)
ScanRequests(buf, i, depth, start, msgs, last) ==
    IF i > Len(buf) THEN <<msgs, last>>
    ELSE IF buf[i] = "{" THEN
        ScanRequests(buf, i + 1, depth + 1, IF depth = 0 THEN i ELSE start, msgs, last)
    ELSE IF buf[i] = "}" /\ depth = 1 THEN
        ScanRequests(buf, i + 1, 0, start, Append(msgs, SubSeq(buf, start, i)), i - 1)
    ELSE IF buf[i] = "}" /\ depth > 1 THEN
        ScanRequests(buf, i + 1, depth - 1, start, msgs, last)
    ELSE
        ScanRequests(buf, i + 1, depth, start, msgs, last)

extract_requests(buf) == ScanRequests(buf, 1, 0, 0, <<>>, 0)

\* A request the protocol defines as a notification: it carries the mark.
IsNotification(msg) == \E i \in 1..Len(msg) : msg[i] = "n"

\* The response text of a request that is not a notification: the request
\* with its braces turned into brackets, so that different requests have
\* different responses.
ResponseText(msg) ==
    [i \in 1..Len(msg) |-> IF msg[i] = "{" THEN "[" ELSE "]"]

\* IoHandler::handle_request_sync: Option<String>
handle_request_sync(msg) ==
    IF IsNotification(msg) THEN None ELSE Some(ResponseText(msg))

\* ------------------------------------------------------------------------
\* The state.
\* ------------------------------------------------------------------------

VARIABLES
    \* RpcServer and the EventLoop
    connections,   \* RpcServer.connections: the slab, token -> SocketConnection
    tokens,        \* RpcServer.tokens: VecDeque<Token>
    armed,         \* the event loop's registration of each client socket
    panicked,      \* a handler panicked: the loop execution was aborted
    \* the kernel
    inbox,         \* bytes a client has sent that the server has not read
    outbox,        \* bytes the server's writes have delivered to a client
    sock_open,     \* the server's end of a client's connection is open
    peer_closed,   \* the client has closed its end
    backlog,       \* connections waiting in the listener's accept queue
    srv_edge,      \* the listener's edge-triggered readiness is pending
    \* the clients
    cstate,        \* "new", "connected" or "closed"
    nsent,         \* what the client has sent so far (bytes or requests)
    \* what the handlers did, recorded for the properties
    stream,        \* all bytes read from a client, in order
    dispatched,    \* the requests handed to the handler, in order
    queued,        \* all response bytes put into write_buf, in order
    last_read,     \* the last read that delivered bytes
    last_offer,    \* the bytes the last write attempt offered to the socket
    last_io,       \* the last read or write of a handler, and how it ended
    \* Server
    is_stopping,   \* Server.is_stopping
    is_stopped,    \* Server.is_stopped
    el_lock,       \* Server.event_loop: the thread holding its write guard (0: free)
    srv_lock,      \* Server.rpc_server: the thread holding its write guard (0: free)
    poisoned,      \* a thread panicked while holding the write guards
    file_exists,   \* the socket file is at Server.addr
    \* the threads
    workers,       \* the threads run_async spawned: where each is
    pc,            \* where each calling thread is in its call
    op,            \* the call a calling thread is in
    entry,         \* the flags when the call began
    calls          \* the calls a thread has completed, with their results

reactor_vars ==
    <<connections, tokens, armed, panicked, inbox, outbox, sock_open, backlog,
      stream, dispatched, queued, last_read, last_offer, last_io>>

env_vars == <<peer_closed, srv_edge, cstate, nsent>>

\* The part of the state the handlers read and write, as one value.
Reactor ==
    [connections |-> connections, tokens |-> tokens, armed |-> armed,
     panicked |-> panicked, inbox |-> inbox, outbox |-> outbox,
     sock_open |-> sock_open, backlog |-> backlog, stream |-> stream,
     dispatched |-> dispatched, queued |-> queued, last_read |-> last_read,
     last_offer |-> last_offer, last_io |-> last_io]

Apply(r) ==
    /\ connections' = r.connections
    /\ tokens' = r.tokens
    /\ armed' = r.armed
    /\ panicked' = r.panicked
    /\ inbox' = r.inbox
    /\ outbox' = r.outbox
    /\ sock_open' = r.sock_open
    /\ backlog' = r.backlog
    /\ stream' = r.stream
    /\ dispatched' = r.dispatched
    /\ queued' = r.queued
    /\ last_read' = r.last_read
    /\ last_offer' = r.last_offer
    /\ last_io' = r.last_io

NoIo == [client |-> 0, op |-> "none", result |-> "none"]

NoRead == [client |-> 0, before |-> <<>>, chunk |-> <<>>, requests |-> <<>>]

\* ------------------------------------------------------------------------
\* SocketConnection
\* ------------------------------------------------------------------------

\* SocketConnection::new: no token yet (0), interest hup only
SocketConnection_new(sock) ==
    [live |-> TRUE, socket |-> sock, write_buf |-> None, request |-> <<>>,
     token |-> 0, interest |-> {"hup"}]

\* event_loop.reregister(&self.socket, token, self.interest, edge | oneshot)
reregister(r, tok) ==
    LET conn == r.connections[tok]
    IN  [r EXCEPT !.armed[conn.socket] = conn.interest]

\* SocketConnection::writable.  accepted is the number of bytes the socket
\* takes from this write_all before it fails; write_all succeeds when the
\* socket takes all that is offered.  On failure try! returns early: the
\* buffer was taken, and the socket is not re-registered.
writable(r, tok, accepted) ==
    LET conn  == r.connections[tok]
        c     == conn.socket
        buf   == conn.write_buf.buf
        offer == IF Len(buf) < MAX_WRITE_LENGTH THEN buf
                 ELSE UpTo(buf, MAX_WRITE_LENGTH)
        n     == Min(accepted, Len(offer))
        taken == [r EXCEPT !.connections[tok].write_buf = None,
                           !.outbox[c] = @ \o UpTo(offer, n),
                           !.last_offer[c] = offer,
                           !.last_io = [client |-> c, op |-> "write",
                                        result |-> IF n < Len(offer) THEN "error"
                                                   ELSE "ok"]]
    IN  IF ~conn.write_buf.some THEN
            reregister(
                [r EXCEPT !.last_io = [client |-> c, op |-> "write",
                                       result |-> "nothing"]],
                tok)
        ELSE IF n < Len(offer) THEN taken
        ELSE IF Len(buf) < MAX_WRITE_LENGTH THEN
            reregister(
                [taken EXCEPT !.connections[tok].interest =
                                  (@ \ {"writable"}) \cup {"readable"}],
                tok)
        ELSE
            reregister(
                [taken EXCEPT !.connections[tok].write_buf =
                                  Some(From(buf, MAX_WRITE_LENGTH))],
                tok)

\* A loop that keeps the last response instead of extending the buffer.
RECURSIVE response_bytes_last(_)
response_bytes_last(requests) ==
    IF requests = <<>> THEN <<>>
    ELSE LET rest     == response_bytes_last(Tail(requests))
             response == handle_request_sync(Head(requests))
         IN  IF rest # <<>> THEN rest
             ELSE IF response.some THEN response.buf ELSE <<>>

\* the loop over the requests of one batch: the responses, concatenated
RECURSIVE response_bytes(_)
response_bytes(requests) ==
    IF requests = <<>> THEN <<>>
    ELSE LET response == handle_request_sync(Head(requests))
         IN  (IF response.some THEN response.buf ELSE <<>>)
                 \o response_bytes(Tail(requests))

\* A drain that starts at the last consumed byte instead of after it.
left_over_from_last(request, last_index) == From(request, last_index)

\* let left_over = self.request.drain(last_index + 1..).collect()
left_over(request, last_index) == From(request, last_index + 1)

\* SocketConnection::readable.  outcome is what try_read_buf returns:
\* "data" (Ok(Some(n)), the bytes available up to the capacity of read_buf,
\* n = 0 at end of stream), "wouldblock" (Ok(None)) or "error" (Err).
readable(r, tok, outcome) ==
    LET conn       == r.connections[tok]
        c          == conn.socket
        n          == Min(Len(r.inbox[c]), REQUEST_CHUNK_SIZE)
        read_buf   == UpTo(r.inbox[c], n)
        request    == conn.request \o read_buf
        extracted  == extract_requests(request)
        requests   == extracted[1]
        last_index == extracted[2]
        bytes      == response_bytes(requests)
        io         == [r EXCEPT !.last_io = [client |-> c, op |-> "read",
                                                result |-> outcome]]
        read       == [io EXCEPT !.inbox[c] = From(@, n),
                                !.stream[c] = @ \o read_buf,
                                !.last_read = [client |-> c, before |-> conn.request,
                                               chunk |-> read_buf,
                                               requests |-> requests]]
    IN  IF outcome = "wouldblock" THEN reregister(io, tok)
        ELSE IF outcome = "error" THEN
            reregister(
                [io EXCEPT !.connections[tok].interest = @ \ {"readable"}], tok)
        ELSE IF Len(requests) > 0 THEN
            reregister(
                [read EXCEPT !.connections[tok].write_buf = Some(bytes),
                             !.connections[tok].request =
                                 left_over(request, last_index),
                             !.connections[tok].interest =
                                 (@ \ {"readable"}) \cup {"writable"},
                             !.dispatched[c] = @ \o requests,
                             !.queued[c] = @ \o bytes],
                tok)
        ELSE
            reregister(
                [read EXCEPT !.connections[tok].request = request,
                             !.connections[tok].interest = @ \cup {"readable"}],
                tok)

\* ------------------------------------------------------------------------
\* RpcServer
\* ------------------------------------------------------------------------

\* Slab::count
count(conns) == Cardinality({t \in Tokens : conns[t].live})

Panic(r) == [r EXCEPT !.panicked = TRUE]

\* An accept that does not look at the number of connections.
accept_no_limit(r, slot) ==
    LET c          == Head(r.backlog)
        taken      == [r EXCEPT !.backlog = Tail(@), !.sock_open[c] = TRUE]
        connection == SocketConnection_new(c)
    IN  IF r.backlog = <<>> THEN [r EXCEPT !.panicked = TRUE]
        ELSE IF slot \notin Tokens THEN
            [taken EXCEPT !.sock_open[c] = FALSE, !.panicked = TRUE]
        ELSE
            [taken EXCEPT !.connections[slot] = [connection EXCEPT !.token = slot],
                          !.tokens = Append(@, slot),
                          !.armed[c] = {"readable"}]

\* RpcServer::accept.  slot is the token Slab::insert hands out.  With
\* nothing to accept the double unwrap of self.socket.accept() panics.
accept(r, slot) ==
    LET c          == Head(r.backlog)
        taken      == [r EXCEPT !.backlog = Tail(@), !.sock_open[c] = TRUE]
        connection == SocketConnection_new(c)
    IN  IF r.backlog = <<>> THEN Panic(r)
        ELSE IF count(r.connections) >= MAX_CONCURRENT_CONNECTIONS THEN
            \* max connections: the connection is dropped, its socket closed
            [taken EXCEPT !.sock_open[c] = FALSE]
        ELSE IF slot \notin Tokens THEN
            \* insert(connection).ok().expect(..) on a full slab
            Panic([taken EXCEPT !.sock_open[c] = FALSE])
        ELSE
            [taken EXCEPT !.connections[slot] = [connection EXCEPT !.token = slot],
                          !.tokens = Append(@, slot),
                          !.armed[c] = {"readable"}]

\* RpcServer::connection: indexing the slab with a token it does not hold
\* panics.
HasConnection(r, tok) == tok \in Tokens /\ r.connections[tok].live

\* RpcServer::connection_readable
connection_readable(r, tok, outcome) ==
    IF HasConnection(r, tok) THEN readable(r, tok, outcome) ELSE Panic(r)

\* RpcServer::connection_writable
connection_writable(r, tok, accepted) ==
    IF HasConnection(r, tok) THEN writable(r, tok, accepted) ELSE Panic(r)

\* RpcServer::drop_connection: Slab::remove, which does nothing for a token
\* the slab does not hold.  Dropping the SocketConnection closes its socket,
\* and the kernel forgets the registration of a closed socket.
drop_connection(r, tok) ==
    IF ~HasConnection(r, tok) THEN r
    ELSE LET c == r.connections[tok].socket
         IN  [r EXCEPT !.connections[tok] = NoConn,
                       !.sock_open[c] = FALSE,
                       !.armed[c] = {}]

\* Handler::ready, its three ifs in order; a panic ends it where it occurs.
\* io holds what the environment answers to the calls the handlers make:
\* io.read to try_read_buf, io.accepted to write_all, io.slot to Slab::insert.
ready(r, token, events, io) ==
    LET r1 == IF "readable" \notin events THEN r
              ELSE IF token = SERVER THEN accept(r, io.slot)
              ELSE connection_readable(r, token, io.read)
        r2 == IF r1.panicked \/ "hup" \notin events \/ token = SERVER THEN r1
              ELSE drop_connection(r1, token)
        r3 == IF r2.panicked \/ "writable" \notin events \/ token = SERVER THEN r2
              ELSE connection_writable(r2, token, io.accepted)
    IN  r3

\* ------------------------------------------------------------------------
\* The event loop: what EventLoop::run_once may deliver to Handler::ready.
\* ------------------------------------------------------------------------

\* Slab::insert hands out a free slot (0 stands for none: the slab is full).
\* Which free slot it is makes no difference to the server; the model takes
\* the lowest.
FreeSlot(conns) ==
    IF \A t \in Tokens : conns[t].live THEN 0
    ELSE CHOOSE t \in Tokens :
             ~conns[t].live /\ \A u \in Tokens : ~conns[u].live => t <= u

\* The token of the live connection on client c's socket (0: none).
TokenOf(c) ==
    IF \E t \in Tokens : connections[t].live /\ connections[t].socket = c
    THEN CHOOSE t \in Tokens : connections[t].live /\ connections[t].socket = c
    ELSE 0

\* Readiness of client c's socket: the kinds registered for it that the
\* kernel may report, and hup, which epoll reports whether asked or not,
\* once the peer has closed.
ReadySets(c) ==
    {e \in SUBSET EventKinds :
        /\ e # {}
        /\ "readable" \in e => "readable" \in armed[c]
        /\ "writable" \in e => "writable" \in armed[c]
        /\ "hup" \in e => peer_closed[c]}

\* What try_read_buf may return: the bytes there are, end of stream (zero
\* bytes) once the peer has closed, would-block when there is nothing, or
\* an error.
ReadOutcomes(c) ==
    {"error"} \cup (IF inbox[c] # <<>> \/ peer_closed[c] THEN {"data"}
                    ELSE {"wouldblock"})

\* One event on the listener: SERVER, readable (edge-triggered).
ServerEvent ==
    /\ srv_edge
    /\ srv_edge' = FALSE
    /\ Apply(ready(Reactor, SERVER, {"readable"},
                   [slot |-> FreeSlot(connections), read |-> "data", accepted |-> 0]))
    /\ UNCHANGED <<peer_closed, cstate, nsent>>

\* One event on a client socket.  The registration is one-shot: delivering
\* the event disarms it, and only reregister arms it again.
ClientEvent(c) ==
    /\ TokenOf(c) # 0
    /\ armed[c] # {}
    /\ \E e \in ReadySets(c) :
       \E outcome \in (IF "readable" \in e THEN ReadOutcomes(c) ELSE {"data"}) :
       \E accepted \in (IF "writable" \in e THEN 0..MAX_WRITE_LENGTH
                        ELSE {MAX_WRITE_LENGTH}) :
           Apply(ready([Reactor EXCEPT !.armed[c] = {}], TokenOf(c), e,
                       [slot |-> 0, read |-> outcome, accepted |-> accepted]))
    /\ UNCHANGED env_vars

life_vars ==
    <<is_stopping, is_stopped, el_lock, srv_lock, poisoned, file_exists,
      workers, pc, op, entry, calls>>

vars == <<reactor_vars, env_vars, life_vars>>

\* ------------------------------------------------------------------------
\* The clients and the kernel.
\* ------------------------------------------------------------------------

\* The request texts a client of the whole-message specifications sends.
Requests == {<<"{", "}">>, <<"{", "n", "}">>, <<"{", "{", "}", "}">>}

\* connect(): the connection enters the listener's accept queue, which is an
\* edge for the listener's registration.
ClientConnect(c) ==
    /\ cstate[c] = "new"
    /\ cstate' = [cstate EXCEPT ![c] = "connected"]
    /\ backlog' = Append(backlog, c)
    /\ srv_edge' = TRUE
    /\ UNCHANGED <<connections, tokens, armed, panicked, inbox, outbox,
                   sock_open, stream, dispatched, queued, last_read, last_offer,
                   last_io, peer_closed, nsent, life_vars>>

\* The client's socket still has a server end: queued for accept, or accepted
\* and not closed by the server.
Reachable(c) == sock_open[c] \/ \E i \in 1..Len(backlog) : backlog[i] = c

\* write(): bytes reach the receive buffer of the server's end.
ClientSend(c, bytes, cost, limit) ==
    /\ cstate[c] = "connected"
    /\ Reachable(c)
    /\ nsent[c] + cost <= limit
    /\ nsent' = [nsent EXCEPT ![c] = @ + cost]
    /\ inbox' = [inbox EXCEPT ![c] = @ \o bytes]
    /\ UNCHANGED <<connections, tokens, armed, panicked, outbox, sock_open,
                   backlog, stream, dispatched, queued, last_read, last_offer,
                   last_io, peer_closed, srv_edge, cstate, life_vars>>

\* close()
ClientClose(c) ==
    /\ cstate[c] = "connected"
    /\ cstate' = [cstate EXCEPT ![c] = "closed"]
    /\ peer_closed' = [peer_closed EXCEPT ![c] = TRUE]
    /\ UNCHANGED <<reactor_vars, srv_edge, nsent, life_vars>>

\* ------------------------------------------------------------------------
\* Server: the lifecycle.
\* ------------------------------------------------------------------------

Callers == {"t1", "t2"}

Flags == [stopped |-> is_stopped, stopping |-> is_stopping]

\* EventLoop::run_once(&mut server, Some(100)) delivering one event
Deliver == ServerEvent \/ \E c \in Clients : ClientEvent(c)

\* Server::poll, called by a thread of its own in a loop: both write guards
\* taken, one run_once, both released.  unwrap() on a poisoned lock panics.
poll ==
    /\ el_lock = 0 /\ srv_lock = 0 /\ ~poisoned
    /\ Deliver
    /\ poisoned' = panicked'
    /\ UNCHANGED <<is_stopping, is_stopped, el_lock, srv_lock, file_exists,
                   workers, pc, op, entry, calls>>

Return(t, res) ==
    /\ pc' = [pc EXCEPT ![t] = "idle"]
    /\ calls' = [calls EXCEPT ![t] =
                    Append(@, [op |-> op[t], result |-> res, entry |-> entry[t]])]

\* stop() returns to its caller, which is Drop for Server when the thread is
\* dropping the server: drop ignores the result and goes on.
StopReturn(t, res) ==
    IF op[t] = "drop"
    THEN /\ pc' = [pc EXCEPT ![t] = "dr_remove"]
         /\ calls' = [calls EXCEPT ![t] =
                         Append(@, [op |-> "stop", result |-> res, entry |-> entry[t]])]
    ELSE Return(t, res)

\* A thread may begin a call: it is in none, and the server is not dropped.
\* Dropping the server needs it exclusively (&mut self).
CanCall(t, o) ==
    /\ pc[t] = "idle"
    /\ Len(calls[t]) < MaxCalls
    /\ \A u \in Callers : pc[u] # "dropped"
    /\ o = "drop" => \A u \in Callers : pc[u] = "idle"

\* run_async begins: if self.is_stopping.load() { return Err(IsStopping) }
run_async_stopping(t) ==
    /\ CanCall(t, "run_async")
    /\ op' = [op EXCEPT ![t] = "run_async"]
    /\ entry' = [entry EXCEPT ![t] = Flags]
    /\ IF is_stopping
       THEN /\ pc' = pc
            /\ calls' = [calls EXCEPT ![t] =
                   Append(@, [op |-> "run_async", result |-> "IsStopping",
                              entry |-> Flags])]
       ELSE pc' = [pc EXCEPT ![t] = "ra_stopped"] /\ UNCHANGED calls
    /\ UNCHANGED <<reactor_vars, env_vars, is_stopping, is_stopped, el_lock,
                   srv_lock, poisoned, file_exists, workers>>

\* A run_async that does not look at is_stopped.
run_async_stopped_unchecked(t) ==
    /\ pc[t] = "ra_stopped"
    /\ pc' = [pc EXCEPT ![t] = "ra_store"]
    /\ UNCHANGED <<reactor_vars, env_vars, is_stopping, is_stopped, el_lock,
                   srv_lock, poisoned, file_exists, workers, op, entry, calls>>

\* run_async: if !self.is_stopped.load() { return Err(NotStopped) }
run_async_stopped(t) ==
    /\ pc[t] = "ra_stopped"
    /\ IF ~is_stopped THEN Return(t, "NotStopped")
       ELSE pc' = [pc EXCEPT ![t] = "ra_store"] /\ UNCHANGED calls
    /\ UNCHANGED <<reactor_vars, env_vars, is_stopping, is_stopped, el_lock,
                   srv_lock, poisoned, file_exists, workers, op, entry>>

\* A run_async that spawns its worker without clearing is_stopped.
run_async_store_skipped(t) ==
    /\ pc[t] = "ra_store"
    /\ pc' = [pc EXCEPT ![t] = "ra_spawn"]
    /\ UNCHANGED <<reactor_vars, env_vars, is_stopping, is_stopped, el_lock,
                   srv_lock, poisoned, file_exists, workers, op, entry, calls>>

\* run_async: self.is_stopped.store(false)
run_async_store(t) ==
    /\ pc[t] = "ra_store"
    /\ is_stopped' = FALSE
    /\ pc' = [pc EXCEPT ![t] = "ra_spawn"]
    /\ UNCHANGED <<reactor_vars, env_vars, is_stopping, el_lock, srv_lock,
                   poisoned, file_exists, workers, op, entry, calls>>

\* run_async: std::thread::spawn(...); Ok(())
run_async_spawn(t) ==
    /\ pc[t] = "ra_spawn"
    /\ workers' = Append(workers, "lock_event_loop")
    /\ Return(t, "Ok")
    /\ UNCHANGED <<reactor_vars, env_vars, is_stopping, is_stopped, el_lock,
                   srv_lock, poisoned, file_exists, op, entry>>

\* stop_async, stop (o; "drop" is the stop() that Drop for Server calls)
\* begin: if self.is_stopped.load() { return Err(NotStarted) }
stop_stopped(t, o) ==
    /\ CanCall(t, o)
    /\ op' = [op EXCEPT ![t] = o]
    /\ entry' = [entry EXCEPT ![t] = Flags]
    /\ IF is_stopped
       THEN /\ pc' = [pc EXCEPT ![t] = IF o = "drop" THEN "dr_remove" ELSE "idle"]
            /\ calls' = [calls EXCEPT ![t] =
                   Append(@, [op |-> IF o = "drop" THEN "stop" ELSE o,
                              result |-> "NotStarted", entry |-> Flags])]
       ELSE pc' = [pc EXCEPT ![t] = "st_stopping"] /\ UNCHANGED calls
    /\ UNCHANGED <<reactor_vars, env_vars, is_stopping, is_stopped, el_lock,
                   srv_lock, poisoned, file_exists, workers>>

\* A stop that does not look at is_stopping.
stop_stopping_unchecked(t) ==
    /\ pc[t] = "st_stopping"
    /\ pc' = [pc EXCEPT ![t] = "st_store"]
    /\ UNCHANGED <<reactor_vars, env_vars, is_stopping, is_stopped, el_lock,
                   srv_lock, poisoned, file_exists, workers, op, entry, calls>>

\* stop_async, stop: if self.is_stopping.load() { return Err(AlreadyStopping) }
stop_stopping(t) ==
    /\ pc[t] = "st_stopping"
    /\ IF is_stopping
       THEN StopReturn(t, "AlreadyStopping")
       ELSE pc' = [pc EXCEPT ![t] = "st_store"] /\ UNCHANGED calls
    /\ UNCHANGED <<reactor_vars, env_vars, is_stopping, is_stopped, el_lock,
                   srv_lock, poisoned, file_exists, workers, op, entry>>

\* stop_async, stop: self.is_stopping.store(true); stop_async returns here
stop_store(t) ==
    /\ pc[t] = "st_store"
    /\ is_stopping' = TRUE
    /\ IF op[t] = "stop_async" THEN Return(t, "Ok")
       ELSE pc' = [pc EXCEPT ![t] = "st_wait"] /\ UNCHANGED calls
    /\ UNCHANGED <<reactor_vars, env_vars, is_stopped, el_lock, srv_lock,
                   poisoned, file_exists, workers, op, entry>>

\* A stop that returns without waiting for is_stopped.
stop_wait_no_join(t) ==
    /\ pc[t] = "st_wait"
    /\ StopReturn(t, "Ok")
    /\ UNCHANGED <<reactor_vars, env_vars, is_stopping, is_stopped, el_lock,
                   srv_lock, poisoned, file_exists, workers, op, entry>>

\* stop: while !self.is_stopped.load() { sleep }; one turn of the loop that
\* finds the flag set.  A turn that finds it clear sleeps and changes nothing.
stop_wait(t) ==
    /\ pc[t] = "st_wait"
    /\ is_stopped
    /\ StopReturn(t, "Ok")
    /\ UNCHANGED <<reactor_vars, env_vars, is_stopping, is_stopped, el_lock,
                   srv_lock, poisoned, file_exists, workers, op, entry>>

\* Drop for Server, after self.stop().unwrap_or_else(|_| {}):
\* ::std::fs::remove_file(&self.addr).unwrap_or_else(|_| {})
drop_remove_file(t) ==
    /\ pc[t] = "dr_remove"
    /\ file_exists' = FALSE
    /\ pc' = [pc EXCEPT ![t] = "dropped"]
    /\ calls' = [calls EXCEPT ![t] =
                    Append(@, [op |-> "drop", result |-> "Ok", entry |-> entry[t]])]
    /\ UNCHANGED <<reactor_vars, env_vars, is_stopping, is_stopped, el_lock,
                   srv_lock, poisoned, workers, op, entry>>

\* The lock guards name the thread that holds them: a worker by its
\* number, a calling thread by a negative number.
ThreadId(t) == IF t = "t1" THEN 0 - 1 ELSE 0 - 2

\* A calling thread unwinds: the guards it holds are dropped, which poisons
\* their locks.
CallerUnwind(t) ==
    /\ pc' = [pc EXCEPT ![t] = "panicked"]
    /\ el_lock' = IF el_lock = ThreadId(t) THEN 0 ELSE el_lock
    /\ srv_lock' = IF srv_lock = ThreadId(t) THEN 0 ELSE srv_lock
    /\ poisoned' = TRUE

\* A poll that takes the event loop without waiting for its lock.
poll_lock_event_loop_no_wait(t) ==
    /\ CanCall(t, "poll")
    /\ op' = [op EXCEPT ![t] = "poll"]
    /\ entry' = [entry EXCEPT ![t] = Flags]
    /\ IF poisoned THEN CallerUnwind(t)
       ELSE /\ el_lock' = ThreadId(t)
            /\ pc' = [pc EXCEPT ![t] = "po_lock_server"]
            /\ UNCHANGED <<srv_lock, poisoned>>
    /\ UNCHANGED <<reactor_vars, env_vars, is_stopping, is_stopped,
                   file_exists, workers, calls>>

\* poll begins: let mut event_loop = self.event_loop.write().unwrap();
poll_lock_event_loop(t) ==
    /\ CanCall(t, "poll")
    /\ el_lock = 0
    /\ op' = [op EXCEPT ![t] = "poll"]
    /\ entry' = [entry EXCEPT ![t] = Flags]
    /\ IF poisoned THEN CallerUnwind(t)
       ELSE /\ el_lock' = ThreadId(t)
            /\ pc' = [pc EXCEPT ![t] = "po_lock_server"]
            /\ UNCHANGED <<srv_lock, poisoned>>
    /\ UNCHANGED <<reactor_vars, env_vars, is_stopping, is_stopped,
                   file_exists, workers, calls>>

\* poll: let mut server = self.rpc_server.write().unwrap();
poll_lock_server(t) ==
    /\ pc[t] = "po_lock_server"
    /\ srv_lock = 0
    /\ IF poisoned THEN CallerUnwind(t)
       ELSE /\ srv_lock' = ThreadId(t)
            /\ pc' = [pc EXCEPT ![t] = "po_run_once"]
            /\ UNCHANGED <<el_lock, poisoned>>
    /\ UNCHANGED <<reactor_vars, env_vars, is_stopping, is_stopped,
                   file_exists, workers, op, entry, calls>>

\* poll: event_loop.run_once(&mut server, Some(100)).unwrap();
poll_run_once(t) ==
    /\ pc[t] = "po_run_once"
    /\ \/ /\ Deliver
          /\ IF panicked' THEN CallerUnwind(t)
             ELSE /\ pc' = [pc EXCEPT ![t] = "po_return"]
                  /\ UNCHANGED <<el_lock, srv_lock, poisoned>>
       \/ /\ pc' = [pc EXCEPT ![t] = "po_return"]
          /\ UNCHANGED <<reactor_vars, env_vars, el_lock, srv_lock, poisoned>>
    /\ UNCHANGED <<is_stopping, is_stopped, file_exists, workers, op, entry,
                   calls>>

\* poll returns: both guards are dropped
poll_return(t) ==
    /\ pc[t] = "po_return"
    /\ el_lock' = 0
    /\ srv_lock' = 0
    /\ Return(t, "Ok")
    /\ UNCHANGED <<reactor_vars, env_vars, is_stopping, is_stopped, poisoned,
                   file_exists, workers, op, entry>>

\* run begins: let mut event_loop = self.event_loop.write().unwrap();
run_lock_event_loop(t) ==
    /\ CanCall(t, "run")
    /\ el_lock = 0
    /\ op' = [op EXCEPT ![t] = "run"]
    /\ entry' = [entry EXCEPT ![t] = Flags]
    /\ IF poisoned THEN CallerUnwind(t)
       ELSE /\ el_lock' = ThreadId(t)
            /\ pc' = [pc EXCEPT ![t] = "ru_lock_server"]
            /\ UNCHANGED <<srv_lock, poisoned>>
    /\ UNCHANGED <<reactor_vars, env_vars, is_stopping, is_stopped,
                   file_exists, workers, calls>>

\* run: let mut server = self.rpc_server.write().unwrap();
run_lock_server(t) ==
    /\ pc[t] = "ru_lock_server"
    /\ srv_lock = 0
    /\ IF poisoned THEN CallerUnwind(t)
       ELSE /\ srv_lock' = ThreadId(t)
            /\ pc' = [pc EXCEPT ![t] = "ru_loop"]
            /\ UNCHANGED <<el_lock, poisoned>>
    /\ UNCHANGED <<reactor_vars, env_vars, is_stopping, is_stopped,
                   file_exists, workers, op, entry, calls>>

\* run: event_loop.run(&mut server).unwrap(); one event of the loop, which
\* nothing in this file ever shuts down.
run_loop(t) ==
    /\ pc[t] = "ru_loop"
    /\ Deliver
    /\ IF panicked' THEN CallerUnwind(t)
       ELSE UNCHANGED <<pc, el_lock, srv_lock, poisoned>>
    /\ UNCHANGED <<is_stopping, is_stopped, file_exists, workers, op, entry,
                   calls>>

\* ------------------------------------------------------------------------
\* The worker thread of run_async (the closure given to thread::spawn).
\* ------------------------------------------------------------------------

Workers == 1..Len(workers)

\* The thread unwinds: the guards it holds are dropped, which poisons their
\* locks, and the thread is gone.
Unwind(w) ==
    /\ workers' = [workers EXCEPT ![w] = "panicked"]
    /\ el_lock' = IF el_lock = w THEN 0 ELSE el_lock
    /\ srv_lock' = IF srv_lock = w THEN 0 ELSE srv_lock
    /\ poisoned' = TRUE

\* let mut event_loop = event_loop.write().unwrap();
worker_lock_event_loop(w) ==
    /\ workers[w] = "lock_event_loop"
    /\ el_lock = 0
    /\ IF poisoned THEN Unwind(w)
       ELSE /\ el_lock' = w
            /\ workers' = [workers EXCEPT ![w] = "lock_server"]
            /\ UNCHANGED <<srv_lock, poisoned>>
    /\ UNCHANGED <<reactor_vars, env_vars, is_stopping, is_stopped,
                   file_exists, pc, op, entry, calls>>

\* let mut server = server.write().unwrap();
worker_lock_server(w) ==
    /\ workers[w] = "lock_server"
    /\ srv_lock = 0
    /\ IF poisoned THEN Unwind(w)
       ELSE /\ srv_lock' = w
            /\ workers' = [workers EXCEPT ![w] = "check"]
            /\ UNCHANGED <<el_lock, poisoned>>
    /\ UNCHANGED <<reactor_vars, env_vars, is_stopping, is_stopped,
                   file_exists, pc, op, entry, calls>>

\* while !thread_stopping.load()
worker_check(w) ==
    /\ workers[w] = "check"
    /\ workers' = [workers EXCEPT ![w] = IF is_stopping THEN "store" ELSE "run_once"]
    /\ UNCHANGED <<reactor_vars, env_vars, is_stopping, is_stopped, el_lock,
                   srv_lock, poisoned, file_exists, pc, op, entry, calls>>

\* event_loop.run_once(&mut server, Some(100)).unwrap(): one bounded
\* iteration, which delivers an event to Handler::ready or times out.
worker_run_once(w) ==
    /\ workers[w] = "run_once"
    /\ \/ /\ Deliver
          /\ IF panicked' THEN Unwind(w)
             ELSE /\ workers' = [workers EXCEPT ![w] = "check"]
                  /\ UNCHANGED <<el_lock, srv_lock, poisoned>>
       \/ /\ workers' = [workers EXCEPT ![w] = "check"]
          /\ UNCHANGED <<reactor_vars, env_vars, el_lock, srv_lock, poisoned>>
    /\ UNCHANGED <<is_stopping, is_stopped, file_exists, pc, op, entry, calls>>

\* thread_stopped.store(true)
worker_store(w) ==
    /\ workers[w] = "store"
    /\ is_stopped' = TRUE
    /\ workers' = [workers EXCEPT ![w] = "exit"]
    /\ UNCHANGED <<reactor_vars, env_vars, is_stopping, el_lock, srv_lock,
                   poisoned, file_exists, pc, op, entry, calls>>

\* the closure ends: both guards are dropped
worker_exit(w) ==
    /\ workers[w] = "exit"
    /\ workers' = [workers EXCEPT ![w] = "done"]
    /\ el_lock' = 0
    /\ srv_lock' = 0
    /\ UNCHANGED <<reactor_vars, env_vars, is_stopping, is_stopped, poisoned,
                   file_exists, pc, op, entry, calls>>

\* ------------------------------------------------------------------------
\* Specifications.
\* ------------------------------------------------------------------------

\* Server::new: the listener bound (the socket file exists) and registered,
\* an empty slab, is_stopping false, is_stopped true.
Init ==
    /\ connections = [t \in Tokens |-> NoConn]
    /\ tokens = <<>>
    /\ armed = [c \in Clients |-> {}]
    /\ panicked = FALSE
    /\ inbox = [c \in Clients |-> <<>>]
    /\ outbox = [c \in Clients |-> <<>>]
    /\ sock_open = [c \in Clients |-> FALSE]
    /\ peer_closed = [c \in Clients |-> FALSE]
    /\ backlog = <<>>
    /\ srv_edge = FALSE
    /\ cstate = [c \in Clients |-> "new"]
    /\ nsent = [c \in Clients |-> 0]
    /\ stream = [c \in Clients |-> <<>>]
    /\ dispatched = [c \in Clients |-> <<>>]
    /\ queued = [c \in Clients |-> <<>>]
    /\ last_read = NoRead
    /\ last_offer = [c \in Clients |-> <<>>]
    /\ last_io = NoIo
    /\ is_stopping = FALSE
    /\ is_stopped = TRUE
    /\ el_lock = 0
    /\ srv_lock = 0
    /\ poisoned = FALSE
    /\ file_exists = TRUE
    /\ workers = <<>>
    /\ pc = [t \in Callers |-> "idle"]
    /\ op = [t \in Callers |-> "none"]
    /\ entry = [t \in Callers |-> [stopped |-> TRUE, stopping |-> FALSE]]
    /\ calls = [t \in Callers |-> <<>>]

\* The steps of a calling thread.
CallerStep(t) ==
    \/ run_async_stopping(t)
    \/ run_async_stopped(t)
    \/ run_async_store(t)
    \/ run_async_spawn(t)
    \/ \E o \in {"stop_async", "stop", "drop"} : stop_stopped(t, o)
    \/ stop_stopping(t)
    \/ stop_store(t)
    \/ stop_wait(t)
    \/ drop_remove_file(t)

\* The steps of a worker thread.
WorkerStep(w) ==
    \/ worker_lock_event_loop(w)
    \/ worker_lock_server(w)
    \/ worker_check(w)
    \/ worker_run_once(w)
    \/ worker_store(w)
    \/ worker_exit(w)

\* The controlling thread of the lifecycle specification.
Ctl == "t1"

\* The lifecycle: one thread controls the server, started with run_async;
\* one client talks to it and sends one request.
Next ==
    \/ CallerStep(Ctl)
    \/ \E w \in Workers : worker_lock_event_loop(w)
    \/ \E w \in Workers : worker_lock_server(w)
    \/ \E w \in Workers : worker_check(w)
    \/ \E w \in Workers : worker_run_once(w)
    \/ \E w \in Workers : worker_store(w)
    \/ \E w \in Workers : worker_exit(w)
    \/ ClientConnect(1)
    \/ ClientSend(1, <<"{", "}">>, 1, 1)
    \/ ClientClose(1)

Spec == Init /\ [][Next]_vars

\* The scheduler runs every thread that can take a step.
FairSpec ==
    /\ Spec
    /\ WF_vars(CallerStep(Ctl))
    /\ \A w \in 1..MaxCalls : WF_vars(w \in Workers /\ WorkerStep(w))

\* The thread has calls left to make.
InBudget(t) == Len(calls[t]) < MaxThreadCalls

\* Two threads use one server concurrently, each with any of run(), poll(),
\* run_async(), stop_async() and stop(); a client connects.
NextThreads ==
    \/ \E t \in Callers : InBudget(t) /\ run_async_stopping(t)
    \/ \E t \in Callers : InBudget(t) /\ run_async_stopped(t)
    \/ \E t \in Callers : InBudget(t) /\ run_async_store(t)
    \/ \E t \in Callers : InBudget(t) /\ run_async_spawn(t)
    \/ \E t \in Callers : InBudget(t) /\ (\E o \in {"stop_async", "stop"} : stop_stopped(t, o))
    \/ \E t \in Callers : InBudget(t) /\ stop_stopping(t)
    \/ \E t \in Callers : InBudget(t) /\ stop_store(t)
    \/ \E t \in Callers : InBudget(t) /\ stop_wait(t)
    \/ \E t \in Callers : InBudget(t) /\ poll_lock_event_loop(t)
    \/ \E t \in Callers : InBudget(t) /\ poll_lock_server(t)
    \/ \E t \in Callers : InBudget(t) /\ poll_run_once(t)
    \/ \E t \in Callers : InBudget(t) /\ poll_return(t)
    \/ \E t \in Callers : InBudget(t) /\ run_lock_event_loop(t)
    \/ \E t \in Callers : InBudget(t) /\ run_lock_server(t)
    \/ \E t \in Callers : InBudget(t) /\ run_loop(t)
    \/ \E w \in Workers : worker_lock_event_loop(w)
    \/ \E w \in Workers : worker_lock_server(w)
    \/ \E w \in Workers : worker_check(w)
    \/ \E w \in Workers : worker_run_once(w)
    \/ \E w \in Workers : worker_store(w)
    \/ \E w \in Workers : worker_exit(w)
    \/ ClientConnect(1)

SpecThreads == Init /\ [][NextThreads]_vars

\* The table: a thread of its own calls poll() in a loop; every client
\* connects and closes, and the first of them also sends a request.  The
\* clients that send nothing are alike, so they connect in the order of
\* their numbers.
NextTable ==
    \/ poll
    \/ \E c \in Clients :
           /\ \A d \in Clients : 1 < d /\ d < c => cstate[d] # "new"
           /\ ClientConnect(c)
    \/ ClientSend(1, <<"{", "}">>, 1, 1)
    \/ \E c \in Clients : ClientClose(c)

SpecTable == Init /\ [][NextTable]_vars

\* The byte stream: poll() in a loop; one client sends any bytes, one at a
\* time, so that the reads of the server split the stream anywhere.
NextStream ==
    \/ poll
    \/ ClientConnect(1)
    \/ \E b \in Bytes : ClientSend(1, <<b>>, 1, MaxBytes)
    \/ ClientClose(1)

SpecStream == Init /\ [][NextStream]_vars

\* The responses: poll() in a loop; one client sends whole requests.
NextWrite ==
    \/ poll
    \/ ClientConnect(1)
    \/ \E m \in Requests : ClientSend(1, m, 1, MaxMsgs)
    \/ ClientClose(1)

SpecWrite == Init /\ [][NextWrite]_vars

\* The thread that calls poll() in a loop keeps calling it.
FairWrite == SpecWrite /\ WF_vars(poll)

\* ------------------------------------------------------------------------
\* The lifecycle contract (section 4.4 of the specification).
\* ------------------------------------------------------------------------

Done == calls[Ctl]

\* What run_async is specified to return, by the flags it finds.
RunAsyncMatrix(f) ==
    IF f.stopping THEN "IsStopping"
    ELSE IF ~f.stopped THEN "NotStopped"
    ELSE "Ok"

\* What stop and stop_async are specified to return, by the flags they find.
StopMatrix(f) ==
    IF f.stopped THEN "NotStarted"
    ELSE IF f.stopping THEN "AlreadyStopping"
    ELSE "Ok"

\* The step completes a call of o with result res.
Returns(o, res) ==
    /\ Len(calls'[Ctl]) = Len(calls[Ctl]) + 1
    /\ calls'[Ctl][Len(calls'[Ctl])].op = o
    /\ calls'[Ctl][Len(calls'[Ctl])].result = res

FlagsUnchanged == is_stopping' = is_stopping /\ is_stopped' = is_stopped

\* C1: run_async() returns IsStopping when stopping is set, NotStopped when
\* the loop is running (stopped and stopping both clear), and Ok otherwise;
\* a call that returns an error changes neither flag; a call that returns Ok
\* has cleared stopped and spawns exactly one worker; a worker iterates
\* until it finds stopping set, and then sets stopped.
C1_RunAsyncMatrix ==
    /\ [](\A i \in 1..Len(Done) :
            Done[i].op = "run_async" =>
                Done[i].result = RunAsyncMatrix(Done[i].entry))
    /\ [][/\ \A res \in {"IsStopping", "NotStopped"} :
               Returns("run_async", res) =>
                   FlagsUnchanged /\ workers' = workers
          /\ Returns("run_async", "Ok") =>
                 /\ ~is_stopped /\ ~is_stopped'
                 /\ Len(workers') = Len(workers) + 1
          /\ \A w \in Workers :
                 /\ workers[w] = "check" /\ workers'[w] # "check" =>
                        workers'[w] = IF is_stopping THEN "store" ELSE "run_once"
                 /\ workers[w] = "store" /\ workers'[w] # "store" => is_stopped'
          /\ is_stopped' /\ ~is_stopped => is_stopping
         ]_vars

\* C1 witness: the controlling thread has seen all three results of
\* run_async, and the worker it started has set stopped and ended.
C1_Witness ==
    /\ \A res \in {"Ok", "NotStopped", "IsStopping"} :
           \E i \in 1..Len(Done) :
               Done[i].op = "run_async" /\ Done[i].result = res
    /\ \E w \in Workers : workers[w] = "done"
    /\ is_stopped

\* C2: stop() and stop_async() return NotStarted when stopped is set (also
\* when stopping is still set after a drain), AlreadyStopping when stopped
\* is clear and stopping set, and otherwise set stopping and return Ok; a
\* call that returns an error changes neither flag; of two consecutive
\* stop() calls on a running server the first returns Ok and the second
\* NotStarted.
C2_StopMatrix ==
    /\ [](\A i \in 1..Len(Done) :
            /\ Done[i].op \in {"stop", "stop_async"} =>
                   Done[i].result = StopMatrix(Done[i].entry)
            /\ /\ i < Len(Done)
               /\ Done[i].op = "stop" /\ Done[i].entry = [stopped |-> FALSE, stopping |-> FALSE]
               /\ Done[i + 1].op = "stop"
               => Done[i].result = "Ok" /\ Done[i + 1].result = "NotStarted")
    /\ [][\A o \in {"stop", "stop_async"} :
             /\ \A res \in {"NotStarted", "AlreadyStopping"} :
                    Returns(o, res) => FlagsUnchanged
             /\ Returns(o, "Ok") => is_stopping'
         ]_vars

\* C2 witness: stop() twice in a row on a running server, the second call
\* finding stopped and stopping both set; and an AlreadyStopping result.
C2_Witness ==
    /\ \E i \in 1..(Len(Done) - 1) :
           /\ Done[i].op = "stop" /\ Done[i].result = "Ok"
           /\ Done[i + 1].op = "stop" /\ Done[i + 1].result = "NotStarted"
           /\ Done[i + 1].entry = [stopped |-> TRUE, stopping |-> TRUE]
    /\ pc[Ctl] = "idle"

\* C3: the cycle Idle, Running, Draining, Idle repeats: once stop() has
\* returned Ok, the next run_async() returns Ok and the server runs again.
C3_CycleRepeats ==
    \A i \in 1..(Len(Done) - 1) :
        /\ Done[i].op = "stop" /\ Done[i].result = "Ok"
        /\ Done[i + 1].op = "run_async"
        => Done[i + 1].result = "Ok"

\* C4: whenever stop() is called on a running server (stopped and stopping
\* both clear) the worker finds the request, sets stopped, and stop()
\* returns Ok, whatever readiness events the worker is processing.
C4_StopReturns ==
    (pc[Ctl] = "st_wait" /\ op[Ctl] = "stop") ~> (pc[Ctl] = "idle")

\* The server was started with run_async() and has served a request.
StartedAndServed ==
    /\ \E i \in 1..Len(Done) : Done[i].op = "run_async" /\ Done[i].result = "Ok"
    /\ \E c \in Clients : dispatched[c] # <<>>

WorkersStopped ==
    /\ is_stopped
    /\ \A w \in Workers : workers[w] \in {"exit", "done"}

\* C6, as claimed: after the teardown of a server that was started with
\* run_async() and has served requests, the worker has been stopped and
\* the socket file no longer exists.
C6_TeardownAsClaimed ==
    pc[Ctl] = "dropped" /\ StartedAndServed =>
        ~file_exists /\ WorkersStopped

\* The result of the stop() that the teardown called.
DropStopResult == Done[Len(Done) - 1].result

\* C6, amended: after the teardown the socket file no longer exists and a
\* stop has been requested; the worker has been stopped unless the
\* teardown's stop() found a stop_async() drain in progress
\* (AlreadyStopping), which it does not wait for.
C6_Teardown ==
    pc[Ctl] = "dropped" /\ StartedAndServed =>
        /\ ~file_exists
        /\ is_stopping
        /\ DropStopResult # "AlreadyStopping" => WorkersStopped

\* C6 witness: a server that served a request is torn down while running,
\* and the teardown's stop() waited for the worker.
C6_Witness ==
    /\ pc[Ctl] = "dropped"
    /\ StartedAndServed
    /\ DropStopResult = "Ok"
    /\ Done[Len(Done) - 1].entry = [stopped |-> FALSE, stopping |-> FALSE]

\* ------------------------------------------------------------------------
\* The dispatch loop and the connection table (sections 4.2, 4.3 and 7).
\* ------------------------------------------------------------------------

\* The step handles an event of a client slot: the loop ran, and accepted
\* nothing.
ClientEventStep == backlog' = backlog /\ Reactor' # Reactor

\* The client whose connection or socket the step changed is c alone.
OnlyChanges(c) ==
    /\ \A t \in Tokens :
           connections'[t] # connections[t] =>
               c \in {connections[t].socket, connections'[t].socket}
    /\ \A d \in Clients \ {c} :
           /\ armed'[d] = armed[d]
           /\ sock_open'[d] = sock_open[d]
           /\ inbox'[d] = inbox[d]
           /\ outbox'[d] = outbox[d]

\* C5: no readiness event of a client slot, with any flags and any I/O
\* outcome, aborts the dispatch loop or changes another connection.
C5_ClientEventsAreLocal ==
    [][ClientEventStep =>
           /\ ~panicked'
           /\ \E c \in Clients : OnlyChanges(c)]_vars

OpenSockets == {c \in Clients : sock_open[c]}

\* The step is an accept with the table at capacity.
AcceptAtCapacity ==
    /\ Len(backlog') < Len(backlog)
    /\ count(connections) = MAX_CONCURRENT_CONNECTIONS

\* C10: the live entries of the table never exceed the capacity, and they
\* are exactly the client sockets the server holds open; an accept at
\* capacity closes the new socket without registering it or allocating a
\* slot, and leaves every connection and registration as it was.
C10_CapacityBound ==
    /\ [](/\ Cardinality(OpenSockets) <= MAX_CONCURRENT_CONNECTIONS
          /\ OpenSockets = {connections[t].socket : t \in {u \in Tokens : connections[u].live}}
          /\ count(connections) = Cardinality(OpenSockets))
    /\ [][AcceptAtCapacity =>
             /\ connections' = connections
             /\ tokens' = tokens
             /\ armed' = armed
             /\ ~sock_open'[Head(backlog)]
             /\ ~panicked'
             /\ inbox' = inbox /\ outbox' = outbox]_vars

\* C10 witness: with the table full, a client that is still connected has
\* been taken from the accept queue and its socket closed, unregistered.
C10_Witness ==
    /\ count(connections) = MAX_CONCURRENT_CONNECTIONS
    /\ \E c \in Clients :
           /\ cstate[c] = "connected"
           /\ ~Reachable(c)
           /\ armed[c] = {}
           /\ \A t \in Tokens : connections[t].socket # c

\* ------------------------------------------------------------------------
\* Framing and responses (sections 4.1 and 8).
\* ------------------------------------------------------------------------

\* Batches of complete request texts.
Batches == UNION {[1..n -> Requests] : n \in 1..MaxBatch}

\* The responses a batch is specified to produce: one response text for
\* every request that is not a notification, in request order.
ExpectedResponses(batch) ==
    Flatten([i \in 1..Len(batch) |->
                IF IsNotification(batch[i]) THEN <<>> ELSE ResponseText(batch[i])])

\* The step is a read on client c's connection, which had nothing
\* accumulated, that delivers exactly the bytes of batch; the connection is
\* still in the table afterwards (the event carried no hangup).
ReadsBatch(c, batch) ==
    /\ TokenOf(c) # 0
    /\ connections[TokenOf(c)].request = <<>>
    /\ stream'[c] = stream[c] \o Flatten(batch)
    /\ connections'[TokenOf(c)].live

\* C7: when N complete requests arrive concatenated in one read, the
\* handler is invoked on exactly these N, in order, and the pending write
\* buffer is the concatenation, in order, of the responses of those that
\* are not notifications.
C7_Pipelining ==
    [][\A c \in Clients : \A batch \in Batches :
           ReadsBatch(c, batch) =>
               /\ dispatched'[c] = dispatched[c] \o batch
               /\ connections'[TokenOf(c)].write_buf = Some(ExpectedResponses(batch))
               /\ connections'[TokenOf(c)].request = <<>>]_vars

\* C7 witness: one read delivered a notification and two different
\* requests' worth of bytes in a mixed batch, and the responses are pending.
C7_Witness ==
    \E c \in Clients :
        /\ last_read.client = c
        /\ last_read.before = <<>>
        /\ Len(last_read.requests) = 2
        /\ \E i \in 1..2 : IsNotification(last_read.requests[i])
        /\ TokenOf(c) # 0
        /\ connections[TokenOf(c)].write_buf.some
        /\ connections[TokenOf(c)].write_buf.buf # <<>>

\* What is left of a stream once its complete messages are consumed.
Unconsumed(bytes) ==
    IF extract_requests(bytes)[1] = <<>> THEN bytes
    ELSE From(bytes, extract_requests(bytes)[2] + 1)

\* C8: however the reads split the bytes of a connection, the requests
\* dispatched are those that one read of the whole sequence dispatches; the
\* accumulated buffer holds an incomplete prefix in full and, after a
\* batch, only the bytes after the last consumed offset.
C8_FramingIdempotence ==
    \A c \in Clients :
        /\ dispatched[c] = extract_requests(stream[c])[1]
        /\ TokenOf(c) # 0 =>
               connections[TokenOf(c)].request = Unconsumed(stream[c])

\* C8 witness: a read completed a request whose first bytes an earlier read
\* had left in the accumulated buffer.
C8_Witness ==
    \E c \in Clients :
        /\ last_read.client = c
        /\ last_read.before # <<>>
        /\ last_read.chunk # <<>>
        /\ last_read.requests # <<>>
        /\ Len(dispatched[c]) >= 2

\* The response bytes no write has yet been attempted for.
Pending(c) ==
    IF TokenOf(c) # 0 /\ connections[TokenOf(c)].write_buf.some
    THEN connections[TokenOf(c)].write_buf.buf
    ELSE <<>>

\* The last batch read from client c produced a response buffer longer
\* than the maximum write-chunk size.
LongResponse(c) ==
    /\ last_read.client = c
    /\ Len(ExpectedResponses(last_read.requests)) > MAX_WRITE_LENGTH

\* C9: for a response buffer longer than the chunk size, a writable event
\* offers at most one chunk to the socket and requeues the remainder, and
\* what the client is delivered over all writable events is the response
\* bytes, in order, none twice and none lost: on a connection in the table,
\* what was delivered and what is still pending make up what was queued.
C9_ChunkedDelivery ==
    \A c \in Clients :
        LongResponse(c) =>
            /\ Len(last_offer[c]) <= MAX_WRITE_LENGTH
            /\ TokenOf(c) # 0 => outbox[c] \o Pending(c) = queued[c]

\* ------------------------------------------------------------------------
\* The write path and the error paths (sections 4.1 and 4.3).
\* ------------------------------------------------------------------------

\* The connection on client c's socket has received one request, which is
\* not a notification; its response is pending and nothing is written yet.
OneRequestPending(c) ==
    /\ Len(dispatched[c]) = 1
    /\ ~IsNotification(dispatched[c][1])
    /\ queued[c] = ResponseText(dispatched[c][1])
    /\ outbox[c] = <<>>
    /\ Pending(c) = queued[c]

\* The response is written back, no byte more or less, the write buffer is
\* cleared, and the connection is in the table, open, awaiting readable.
WrittenBack(c) ==
    /\ outbox[c] = queued[c]
    /\ TokenOf(c) # 0
    /\ sock_open[c]
    /\ connections[TokenOf(c)].write_buf = None
    /\ connections[TokenOf(c)].interest = {"readable", "hup"}
    /\ armed[c] = {"readable", "hup"}

\* C11: a connection that receives one complete request that is not a
\* notification has exactly the response of that request written back;
\* once the write buffer is drained it is cleared, interest is back at
\* readable, and the connection is in the table, open and armed (unless
\* the client has closed in the meantime).
C11_ResponseWrittenBack ==
    \A c \in Clients :
        OneRequestPending(c) ~> (WrittenBack(c) \/ peer_closed[c])

WriteError(c) == last_io = [client |-> c, op |-> "write", result |-> "error"]

ReadError(c) == last_io = [client |-> c, op |-> "read", result |-> "error"]

\* The server has closed client c's connection and removed it from the table.
Removed(c) == TokenOf(c) = 0 /\ ~sock_open[c]

\* C12: when a write of the writable handler fails, the dispatch loop
\* closes the connection and removes it from the table.
C12_WriteErrorRemoves ==
    \A c \in Clients : WriteError(c) => Removed(c)

\* C13: when the read of the readable handler fails with an error that is
\* not would-block, the dispatch loop closes and removes the connection: it
\* does not stay in the table without readable or writable interest armed.
C13_ReadErrorRemoves ==
    \A c \in Clients : ReadError(c) => Removed(c)

\* C14: when a write accepts fewer bytes than were offered, the unwritten
\* remainder is the new pending write buffer, the connection stays in
\* writable interest and is armed for the next writable event: delivered
\* and pending bytes make up the queued bytes, none is dropped.
C14_ShortWriteKeepsRemainder ==
    \A c \in Clients :
        WriteError(c) /\ TokenOf(c) # 0 =>
            /\ connections[TokenOf(c)].write_buf.some
            /\ outbox[c] \o connections[TokenOf(c)].write_buf.buf = queued[c]
            /\ "writable" \in connections[TokenOf(c)].interest
            /\ armed[c] = {"writable", "hup"}

\* The step is a read on client c's connection that completes a batch of
\* which every message is a notification.
ReadsNotifications(c) ==
    /\ last_read' # last_read
    /\ last_read'.client = c
    /\ last_read'.requests # <<>>
    /\ \A i \in 1..Len(last_read'.requests) : IsNotification(last_read'.requests[i])
    /\ TokenOf(c) # 0
    /\ connections'[TokenOf(c)].live

\* C15: after a batch of notifications only, the write buffer is absent
\* and the connection awaits readable, not writable; in every state the
\* write buffer of a connection is present only with response bytes in it.
C15_NotificationsQueueNothing ==
    /\ [](\A t \in Tokens :
            connections[t].live /\ connections[t].write_buf.some =>
                connections[t].write_buf.buf # <<>>)
    /\ [][\A c \in Clients :
             ReadsNotifications(c) =>
                 /\ connections'[TokenOf(c)].write_buf = None
                 /\ connections'[TokenOf(c)].interest = {"readable", "hup"}]_vars

\* C16: handling one readiness notification of the listener accepts every
\* connection that is waiting in its accept queue.
C16_AcceptDrainsBacklog ==
    [][Len(backlog') < Len(backlog) => backlog' = <<>>]_vars

\* C17: a read that would block, also on a connection that has just been
\* accepted, leaves the connection armed for readable together with hangup.
C17_WouldBlockRearmsReadable ==
    \A c \in Clients :
        /\ TokenOf(c) # 0
        /\ last_io = [client |-> c, op |-> "read", result |-> "wouldblock"]
        => armed[c] = {"readable", "hup"}

\* ------------------------------------------------------------------------
\* Threads (section 5).
\* ------------------------------------------------------------------------

\* The threads that are executing the dispatch loop: a worker between its
\* loop condition and run_once, a thread inside the run_once of poll() or
\* the loop of run().
LoopThreads ==
    {w \in Workers : workers[w] \in {"check", "run_once"}}
        \cup {ThreadId(t) : t \in {u \in Callers : pc[u] \in {"po_run_once", "ru_loop"}}}

\* The step changes the connection table or the registrations.
HandlerStep ==
    \/ connections' # connections
    \/ tokens' # tokens
    \/ armed' # armed
    \/ last_io' # last_io

\* C18: under any interleaving of run(), poll() and run_async() workers on
\* different threads, at most one thread at a time executes the dispatch
\* loop, and it holds the exclusive guards of both the event loop and the
\* table; the table and the registrations change only in its steps.
C18_OneLoopThread ==
    /\ [](/\ Cardinality(LoopThreads) <= 1
          /\ \A id \in LoopThreads : el_lock = id /\ srv_lock = id)
    /\ [][HandlerStep => el_lock \in LoopThreads /\ srv_lock = el_lock]_vars

\* C18 witness: a thread is inside poll() or run() and has accepted a
\* connection while a worker that run_async spawned waits for the guard.
C18_Witness ==
    /\ \E t \in Callers : pc[t] \in {"po_run_once", "ru_loop"} /\ el_lock = ThreadId(t)
    /\ \E w \in Workers : workers[w] = "lock_event_loop"
    /\ tokens # <<>>

\* The threads whose run_async() returned Ok.
OkStarts ==
    {t \in Callers :
        \E i \in 1..Len(calls[t]) :
            calls[t][i].op = "run_async" /\ calls[t][i].result = "Ok"}

\* C19: when threads call run_async() concurrently on an idle server (no
\* stop has been requested yet), at most one call returns Ok and at most
\* one worker is spawned.
C19_OneStart ==
    ~is_stopping => Cardinality(OkStarts) <= 1 /\ Len(workers) <= 1

\* A stop has been requested: a stop() or stop_async() has stored stopping.
StopRequested ==
    \E t \in Callers :
        \/ pc[t] = "st_wait"
        \/ \E i \in 1..Len(calls[t]) :
               calls[t][i].op \in {"stop", "stop_async"} /\ calls[t][i].result = "Ok"

====
